---- MODULE Spec2Model ----
(***************************************************************************)
(* WebRtcPeer (openvidu-browser): the per-endpoint negotiation controller. *)
(* The RTCPeerConnection `pc` is the environment: its operations are       *)
(* queued on one operations chain and settled one at a time.  Every public *)
(* operation of WebRtcPeer is one action (the synchronous body of the      *)
(* promise executor); the then/catch continuation of an operation runs in  *)
(* the action that settles its engine request.                             *)
(*                                                                         *)
(* Spec is the whole class.  SpecNegotiation (offer/answer creation, every *)
(* configuration), SpecSignaling (descriptions and remote candidates) and  *)
(* SpecTeardown (candidate queues and disposal) are its parts: the actions *)
(* left out of a part neither read nor write what the part's claims read.  *)
(***************************************************************************)
EXTENDS Integers, Sequences, FiniteSets, TLC

\* ---------------------------------------------------------------- bounds
MaxCandidates == 2      \* remote candidates passed to addIceCandidate
MaxInFlight == 1        \* engine requests issued by public operations and not yet settled
MaxTransceivers == 2    \* transceivers the connection holds when createOffer returns
MaxStreams == 2         \* placeholder MediaStreams createOffer may have created
MaxLocalCandidates == 1 \* local candidates kept in localCandidatesQueue
MaxListeners == 2       \* calls of addIceConnectionStateChangeListener

\* ---------------------------------------------------------------- values
Kinds == <<"audio", "video">>

Modes == {"sendonly", "recvonly", "sendrecv"}

SignalingStates == {"stable", "have-local-offer", "have-remote-offer", "closed"}

halvingVideoEncodings ==
    << [rid |-> "r0", maxBitrate |-> 700000, scaleResolutionDownBy |-> 4],
       [rid |-> "r1", maxBitrate |-> 800000, scaleResolutionDownBy |-> 2],
       [rid |-> "r2", maxBitrate |-> 900000, scaleResolutionDownBy |-> 1] >>

\* the fixed table of sender video encodings
simulcastVideoEncodings ==
    << [rid |-> "r0", maxBitrate |-> 700000, scaleResolutionDownBy |-> 16],
       [rid |-> "r1", maxBitrate |-> 800000, scaleResolutionDownBy |-> 8],
       [rid |-> "r2", maxBitrate |-> 900000, scaleResolutionDownBy |-> 1] >>

\* configuration.mediaStream: null, or a stream with its tracks (by kind)
NoStream == [present |-> FALSE, id |-> 0, tracks |-> <<>>]

CallerStream(tracks) == [present |-> TRUE, id |-> 0, tracks |-> tracks]

ReusedMediaStream(old) == [present |-> TRUE, id |-> old.id, tracks |-> <<>>]

\* new MediaStream(): an empty stream no earlier stream is identical to
NewMediaStream(old) == [present |-> TRUE, id |-> old.id + 1, tracks |-> <<>>]

\* RTCSessionDescriptionInit: its type and the media kinds of its SDP text
Description(type, kinds) == [type |-> type, kinds |-> kinds]

\* one call of a public operation: its promise and the engine methods its body invoked
\* (closed: the signaling state was closed when the operation was called)
NoCall == [op |-> "none", closed |-> FALSE, result |-> "none", engineCalls |-> {}]

NewPromise(op, closed) ==
    [op |-> op, closed |-> closed, result |-> "pending", engineCalls |-> {}]

\* resolve()/reject() of a promise: only the first settlement counts
Settle(call, outcome) ==
    IF call.result = "pending" THEN [call EXCEPT !.result = outcome] ELSE call

Invoked(call, method) == [call EXCEPT !.engineCalls = @ \cup {method}]

\* an argument of an engine request
NoArg == [type |-> "none", kinds |-> {}, cand |-> 0]

DescArg(d) == [type |-> d.type, kinds |-> d.kinds, cand |-> 0]

CandArg(c) == [type |-> "candidate", kinds |-> {}, cand |-> c]

\* a request on the engine's operations chain, with the promise waiting for it
Request(method, arg, owner) == [method |-> method, arg |-> arg, owner |-> owner]

VARIABLES
    configuration,          \* this.configuration: mode, mediaStream, mediaConstraints
    pc,                     \* this.pc: the engine's observable state
    remoteCandidatesQueue,  \* this.remoteCandidatesQueue
    localCandidatesQueue,   \* this.localCandidatesQueue
    iceCandidateList,       \* this.iceCandidateList (candidates waiting for stable)
    chain,                  \* engine requests in flight, oldest first
    finished,               \* the promise of the operation whose code ended in this step
    trace,                  \* what the engine was asked to do: closeCalls, candidates, ...
    connectivity            \* pc.iceConnectionState, the iceconnectionstatechange
                            \* listeners, and what they passed to the callback

vars == <<configuration, pc, remoteCandidatesQueue, localCandidatesQueue,
          iceCandidateList, chain, finished, trace, connectivity>>

\* the session state a handler can change (everything but the observers)
sessionVars == <<configuration, pc, remoteCandidatesQueue, localCandidatesQueue,
                 iceCandidateList, chain>>

\* ---------------------------------------------------------------- engine
\* pc.localDescription / pc.remoteDescription: pending if any, else current
\* (the type of the description, "null" when there is none)
LocalDescription(p) ==
    IF p.pendingLocal # "null" THEN p.pendingLocal ELSE p.currentLocal

RemoteDescription(p) ==
    IF p.pendingRemote # "null" THEN p.pendingRemote ELSE p.currentRemote

RECURSIVE FindTransceiver(_, _, _)
\* getTransceivers().find(tc => tc.receiver.track.kind === kind): index or 0
FindTransceiver(tcs, kind, i) ==
    IF i > Len(tcs) THEN 0
    ELSE IF tcs[i].kind = kind THEN i
    ELSE FindTransceiver(tcs, kind, i + 1)

Transceiver(kind, direction, stream, encodings) ==
    [kind |-> kind, direction |-> direction, stream |-> stream, sendEncodings |-> encodings]

RECURSIVE RemoteTransceivers(_, _, _)
\* the transceivers the engine creates for the media kinds of a remote offer
RemoteTransceivers(tcs, kinds, i) ==
    IF i > Len(Kinds) THEN tcs
    ELSE IF Kinds[i] \in kinds /\ FindTransceiver(tcs, Kinds[i], 1) = 0
         THEN RemoteTransceivers(
                  Append(tcs, Transceiver(Kinds[i], "recvonly", -1, <<>>)), kinds, i + 1)
         ELSE RemoteTransceivers(tcs, kinds, i + 1)

\* whether the engine can carry out the request at the head of the chain
Valid(req, p) ==
    CASE req.method = "createOffer" -> TRUE
      [] req.method = "createAnswer" -> p.signalingState = "have-remote-offer"
      [] req.method = "setLocalDescription" ->
            CASE req.arg.type = "offer" ->
                    p.signalingState \in {"stable", "have-local-offer"}
              [] req.arg.type = "answer" -> p.signalingState = "have-remote-offer"
              [] req.arg.type = "rollback" ->
                    p.signalingState \in {"have-local-offer", "have-remote-offer"}
              [] OTHER -> FALSE
      [] req.method = "setRemoteDescription" ->
            CASE req.arg.type = "offer" ->
                    p.signalingState \in {"stable", "have-remote-offer"}
              [] req.arg.type = "answer" -> p.signalingState = "have-local-offer"
              [] OTHER -> FALSE
      [] req.method = "addIceCandidate" -> RemoteDescription(p) # "null"
      [] OTHER -> FALSE

\* the engine's state after it carried out the request
Apply(req, p) ==
    CASE req.method = "setLocalDescription" /\ req.arg.type = "offer" ->
            [p EXCEPT !.signalingState = "have-local-offer", !.pendingLocal = "offer"]
      [] req.method = "setLocalDescription" /\ req.arg.type = "answer" ->
            [p EXCEPT !.signalingState = "stable",
                      !.currentLocal = "answer", !.currentRemote = p.pendingRemote,
                      !.pendingLocal = "null", !.pendingRemote = "null"]
      [] req.method = "setLocalDescription" /\ req.arg.type = "rollback" ->
            [p EXCEPT !.signalingState = "stable",
                      !.pendingLocal = "null", !.pendingRemote = "null"]
      [] req.method = "setRemoteDescription" /\ req.arg.type = "offer" ->
            [p EXCEPT !.signalingState = "have-remote-offer", !.pendingRemote = "offer",
                      !.transceivers = RemoteTransceivers(@, req.arg.kinds, 1)]
      [] req.method = "setRemoteDescription" /\ req.arg.type = "answer" ->
            [p EXCEPT !.signalingState = "stable",
                      !.currentRemote = "answer", !.currentLocal = p.pendingLocal,
                      !.pendingLocal = "null", !.pendingRemote = "null"]
      [] OTHER -> p

\* an engine that completes the requests queued before close()
OutcomesCompletingQueued(req, p) ==
    IF req.owner.closed THEN {"fail"} ELSE {"fail", "ok"}

\* how the engine may settle the request at the head of the chain: a request
\* issued on a closed connection is rejected; one the close overtook is
\* rejected or never settled; otherwise it fails, or succeeds when valid
Outcomes(req, p) ==
    IF req.owner.closed THEN {"fail"}
    ELSE IF p.signalingState = "closed" THEN {"fail", "abandon"}
    ELSE {"fail"} \cup (IF Valid(req, p) THEN {"ok"} ELSE {})

\* ------------------------------------------------------------ WebRtcPeer
InFlight == Cardinality({i \in 1..Len(chain) : chain[i].owner # NoCall})

Closed == pc.signalingState = "closed"

\* pc.<method>(...) returning a promise: the request joins the operations chain
Issue(method, arg, owner) == Request(method, arg, Invoked(owner, method))

RECURSIVE DrainLifo(_, _)
DrainLifo(list, handed) ==
    IF Len(list) > 0
    THEN DrainLifo(SubSeq(list, 1, Len(list) - 1), Append(handed, list[Len(list)]))
    ELSE handed

\* an if in place of the while: the first candidate only
DrainFirst(list, handed) ==
    IF Len(list) > 0 THEN Append(handed, Head(list)) ELSE handed

RECURSIVE Drain(_, _)
\* while (iceCandidateList.length > 0) pc.addIceCandidate(iceCandidateList.shift()):
\* the candidates in the order they are handed to the engine
Drain(list, handed) ==
    IF Len(list) > 0 THEN Drain(Tail(list), Append(handed, Head(list))) ELSE handed

\* the signalingstatechange listener, run with the engine in state p
OnSignalingStateChange(p, list) ==
    IF p.signalingState = "stable"
    THEN [list |-> <<>>, handed |-> Drain(list, <<>>)]
    ELSE [list |-> list, handed |-> <<>>]

\* the requests of the candidates the listener handed to the engine
FlushRequests(handed) ==
    [i \in 1..Len(handed) |-> Request("addIceCandidate", CandArg(handed[i]), NoCall)]

Init ==
    /\ configuration \in
          [mode : Modes,
           mediaStream : {NoStream, CallerStream(<<"audio", "video">>)},
           mediaConstraints : [audio : BOOLEAN, video : BOOLEAN]]
    /\ \E api \in BOOLEAN :
          pc = [signalingState |-> "stable",
                currentLocal |-> "null", pendingLocal |-> "null",
                currentRemote |-> "null", pendingRemote |-> "null",
                transceivers |-> <<>>, senders |-> {}, transceiverApi |-> api]
    /\ remoteCandidatesQueue = <<>>
    /\ localCandidatesQueue = <<>>
    /\ iceCandidateList = <<>>
    /\ chain = <<>>
    /\ finished = NoCall
    /\ trace = [closeCalls |-> 0, candidates |-> <<>>, disposed |-> FALSE, arrived |-> 0]
    /\ connectivity = [iceConnectionState |-> "new", listeners |-> 0, emitted |-> <<>>]

\* the icecandidate listener: candidate is the event's candidate string
\* ("null" for a null event.candidate)
IceCandidateEvent ==
    /\ Len(localCandidatesQueue) < MaxLocalCandidates
    /\ \E candidate \in {"null", "", "candidate:1"} :
          localCandidatesQueue' =
              IF candidate # "null" /\ candidate # ""
              THEN Append(localCandidatesQueue, candidate)
              ELSE localCandidatesQueue
    /\ finished' = NoCall
    /\ UNCHANGED <<configuration, pc, remoteCandidatesQueue, iceCandidateList,
                   chain, trace>>
    /\ UNCHANGED connectivity

DisposeClosesAlways(p) == TRUE

\* dispose(): whether it goes on to pc.close()
DisposeCloses(p) == p.signalingState # "closed"

Retained(queue) == queue

\* dispose(): this.remoteCandidatesQueue = [] and this.localCandidatesQueue = []
Emptied(queue) == <<>>

Dispose ==
    /\ IF DisposeCloses(pc)
       THEN /\ pc' = [pc EXCEPT !.signalingState = "closed"]
            /\ remoteCandidatesQueue' = Emptied(remoteCandidatesQueue)
            /\ localCandidatesQueue' = Emptied(localCandidatesQueue)
            /\ trace' = [trace EXCEPT !.closeCalls = @ + 1, !.disposed = TRUE]
            /\ finished' = Invoked(Settle(NewPromise("dispose", Closed), "returned"), "close")
       ELSE /\ UNCHANGED <<pc, remoteCandidatesQueue, localCandidatesQueue>>
            /\ trace' = [trace EXCEPT !.disposed = TRUE]
            /\ finished' = Settle(NewPromise("dispose", Closed), "returned")
    /\ UNCHANGED <<configuration, iceCandidateList, chain>>
    /\ UNCHANGED connectivity

\* pc.close() by other code holding the public field pc
ExternalClose ==
    /\ ~Closed
    /\ pc' = [pc EXCEPT !.signalingState = "closed"]
    /\ finished' = NoCall
    /\ UNCHANGED <<configuration, remoteCandidatesQueue, localCandidatesQueue,
                   iceCandidateList, chain, trace>>
    /\ UNCHANGED connectivity

\* pc.addTransceiver(trackOrKind, init); on a closed connection it throws
AddTransceiver(st, kind, direction, stream, encodings) ==
    IF Closed
    THEN [st EXCEPT !.call = Invoked(@, "addTransceiver"), !.threw = TRUE]
    ELSE [st EXCEPT !.call = Invoked(@, "addTransceiver"),
                    !.transceivers =
                        Append(@, Transceiver(kind, direction, stream, encodings))]

RECURSIVE SendLoop(_, _, _)
\* for (const track of mediaStream.getTracks()) pc.addTransceiver(track, tcInit)
SendLoop(tracks, i, st) ==
    IF i > Len(tracks) \/ st.threw THEN st
    ELSE SendLoop(tracks, i + 1,
             AddTransceiver(st, tracks[i], configuration.mode, st.mediaStream.id,
                 IF tracks[i] = "video" THEN simulcastVideoEncodings ELSE <<>>))

RECURSIVE RecvLoop(_, _)
\* for (const kind of ["audio", "video"]): a new stream and a transceiver per used kind
RecvLoop(i, st) ==
    IF i > Len(Kinds) \/ st.threw THEN st
    ELSE IF ~configuration.mediaConstraints[Kinds[i]] THEN RecvLoop(i + 1, st)
    ELSE LET fresh == NewMediaStream(st.mediaStream)
         IN RecvLoop(i + 1,
                AddTransceiver([st EXCEPT !.mediaStream = fresh], Kinds[i],
                               configuration.mode, fresh.id, <<>>))

\* pc.addTrack(track, stream); throws on a closed connection and when the
\* track already has a sender
AddTrack(st, kind) ==
    IF Closed \/ kind \in st.senders
    THEN [st EXCEPT !.call = Invoked(@, "addTrack"), !.threw = TRUE]
    ELSE [st EXCEPT !.call = Invoked(@, "addTrack"), !.senders = @ \cup {kind}]

RECURSIVE LegacyLoop(_, _, _)
\* for (const track of mediaStream.getTracks()) pc.addTrack(track, mediaStream)
LegacyLoop(tracks, i, st) ==
    IF i > Len(tracks) \/ st.threw THEN st
    ELSE LegacyLoop(tracks, i + 1, AddTrack(st, tracks[i]))

\* RTCOfferOptions of the legacy path: the kinds offered to be received
OfferOptions(cfg) ==
    [type |-> "options",
     kinds |-> {Kinds[i] : i \in {j \in 1..Len(Kinds) :
                    cfg.mode # "sendonly" /\ cfg.mediaConstraints[Kinds[j]]}},
     cand |-> 0]

StreamNeverRequired(cfg) == FALSE

\* mode !== "recvonly" and no stream was configured to be sent
StreamMissing(cfg) == cfg.mode # "recvonly" /\ ~cfg.mediaStream.present

\* the body of createOffer() up to the request to the engine
OfferBody(st) ==
    IF pc.transceiverApi
    THEN IF configuration.mode # "recvonly"
         THEN IF StreamMissing(configuration)
              THEN [st EXCEPT !.call = Settle(@, "ConfigurationError"), !.returned = TRUE]
              ELSE SendLoop(st.mediaStream.tracks, 1, st)
         ELSE RecvLoop(1, st)
    ELSE IF st.mediaStream.present
         THEN LegacyLoop(st.mediaStream.tracks, 1, st)
         ELSE st

CreateOffer ==
    LET st0 == [call |-> NewPromise("createOffer", Closed),
                transceivers |-> pc.transceivers, senders |-> pc.senders,
                mediaStream |-> configuration.mediaStream,
                threw |-> FALSE, returned |-> FALSE]
        st == OfferBody(st0)
        arg == IF pc.transceiverApi THEN NoArg ELSE OfferOptions(configuration)
    IN /\ Len(st.transceivers) <= MaxTransceivers
       /\ st.mediaStream.id <= MaxStreams
       /\ pc' = [pc EXCEPT !.transceivers = st.transceivers, !.senders = st.senders]
       /\ configuration' = [configuration EXCEPT !.mediaStream = st.mediaStream]
       /\ IF st.threw
          THEN /\ finished' = Settle(st.call, "EngineError")
               /\ UNCHANGED chain
          ELSE IF st.returned
          THEN /\ finished' = st.call
               /\ UNCHANGED chain
          ELSE /\ InFlight < MaxInFlight
               /\ chain' = Append(chain, Issue("createOffer", arg, st.call))
               /\ finished' = NoCall
       /\ UNCHANGED <<remoteCandidatesQueue, localCandidatesQueue, iceCandidateList, trace>>
       /\ UNCHANGED connectivity

RECURSIVE AnswerLoop(_, _)
\* for (const kind of ["audio", "video"]): enforce the direction of its transceiver
AnswerLoop(i, st) ==
    IF i > Len(Kinds) \/ st.threw THEN st
    ELSE IF ~configuration.mediaConstraints[Kinds[i]] THEN AnswerLoop(i + 1, st)
    ELSE LET tc == FindTransceiver(st.transceivers, Kinds[i], 1)
         IN IF tc # 0
            THEN IF Closed
                 THEN [st EXCEPT !.threw = TRUE]
                 ELSE AnswerLoop(i + 1,
                          [st EXCEPT !.transceivers[tc].direction = configuration.mode])
            ELSE AnswerLoop(i + 1, [st EXCEPT !.call = Settle(@, "NegotiationError")])

CreateAnswer ==
    LET st0 == [call |-> NewPromise("createAnswer", Closed),
                transceivers |-> pc.transceivers, threw |-> FALSE]
        st == IF pc.transceiverApi THEN AnswerLoop(1, st0) ELSE st0
    IN /\ pc' = [pc EXCEPT !.transceivers = st.transceivers]
       /\ IF ~pc.transceiverApi
          THEN /\ finished' = st.call
               /\ UNCHANGED chain
          ELSE IF st.threw
          THEN /\ finished' = Settle(st.call, "EngineError")
               /\ UNCHANGED chain
          ELSE /\ InFlight < MaxInFlight
               /\ chain' = Append(chain, Issue("createAnswer", NoArg, st.call))
               /\ finished' = NoCall
       /\ UNCHANGED <<configuration, remoteCandidatesQueue, localCandidatesQueue,
                      iceCandidateList, trace>>
       /\ UNCHANGED connectivity

\* the descriptions a caller passes: the one the operation is meant for, or a rollback
OfferTypes == {"offer", "rollback"}

AnswerTypes == {"answer", "rollback"}

\* the media kinds of a remote SDP text
SdpKinds == {{"audio"}, {"audio", "video"}}

RejectNever(call) == call

\* if (pc.signalingState === 'closed') reject(...), with no return after it
RejectIfClosed(call) == IF Closed THEN Settle(call, "StateError") ELSE call

\* the common shape of processLocal* and processRemote*: one engine request
Process(call, method, description) ==
    /\ InFlight < MaxInFlight
    /\ chain' = Append(chain, Issue(method, DescArg(description), call))
    /\ finished' = NoCall
    /\ UNCHANGED <<configuration, pc, remoteCandidatesQueue, localCandidatesQueue,
                   iceCandidateList, trace>>
    /\ UNCHANGED connectivity

ProcessLocalOffer ==
    \E type \in OfferTypes :
        Process(NewPromise("processLocalOffer", Closed),
                "setLocalDescription", Description(type, {}))

ProcessRemoteOffer ==
    \E sdpOffer \in SdpKinds :
        Process(RejectIfClosed(NewPromise("processRemoteOffer", Closed)),
                "setRemoteDescription", Description("offer", sdpOffer))

ProcessLocalAnswer ==
    \E type \in AnswerTypes :
        Process(RejectIfClosed(NewPromise("processLocalAnswer", Closed)),
                "setLocalDescription", Description(type, {}))

ProcessRemoteAnswer ==
    \E sdpAnswer \in SdpKinds :
        Process(RejectIfClosed(NewPromise("processRemoteAnswer", Closed)),
                "setRemoteDescription", Description("answer", sdpAnswer))

\* addIceCandidate(): case 'stable' with a remote description
ApplyNow(p) == p.signalingState = "stable" /\ RemoteDescription(p) # "null"

BufferWhenClosed(p) == ~ApplyNow(p)

BufferAlways(p) == p.signalingState # "closed"

\* addIceCandidate(): the branches that push to iceCandidateList
Buffer(p) == p.signalingState # "closed" /\ ~ApplyNow(p)

PushedUnlessClosed(queue, iceCandidate, p) ==
    IF p.signalingState = "closed" THEN queue ELSE Append(queue, iceCandidate)

\* addIceCandidate(): this.remoteCandidatesQueue.push(iceCandidate), ahead of
\* the switch on the signaling state p
Pushed(queue, iceCandidate, p) == Append(queue, iceCandidate)

AddIceCandidate ==
    /\ trace.arrived < MaxCandidates
    /\ LET iceCandidate == trace.arrived + 1
           call == NewPromise("addIceCandidate", Closed)
       IN /\ remoteCandidatesQueue' = Pushed(remoteCandidatesQueue, iceCandidate, pc)
          /\ IF Buffer(pc)
             THEN /\ iceCandidateList' = Append(iceCandidateList, iceCandidate)
                  /\ finished' = Settle(call, "resolved")
                  /\ trace' = [trace EXCEPT !.arrived = iceCandidate]
                  /\ UNCHANGED chain
             ELSE IF ApplyNow(pc)
             THEN /\ InFlight < MaxInFlight
                  /\ chain' = Append(chain,
                                 Issue("addIceCandidate", CandArg(iceCandidate), call))
                  /\ trace' = [trace EXCEPT !.arrived = iceCandidate,
                                            !.candidates = Append(@, iceCandidate)]
                  /\ finished' = NoCall
                  /\ UNCHANGED iceCandidateList
             ELSE /\ finished' = Settle(call, "StateError")
                  /\ trace' = [trace EXCEPT !.arrived = iceCandidate]
                  /\ UNCHANGED <<iceCandidateList, chain>>
    /\ UNCHANGED <<configuration, pc, localCandidatesQueue>>
    /\ UNCHANGED connectivity

\* the promise of pc.addIceCandidate() in the listener has no then/catch: when
\* the engine rejects it, the rejection is reported as unhandled
UnhandledRejection ==
    [op |-> "signalingstatechange", closed |-> FALSE, result |-> "unhandledrejection",
     engineCalls |-> {"addIceCandidate"}]

\* the then/catch callbacks of an operation, run when its engine request settles
Continuation(owner, outcome, p) ==
    CASE owner = NoCall -> IF outcome = "fail" THEN UnhandledRejection ELSE NoCall
      [] outcome = "abandon" -> owner
      [] outcome = "fail" -> Settle(owner, "EngineError")
      [] outcome = "ok" /\ owner.op = "processLocalOffer" ->
            IF LocalDescription(p) # "null"
            THEN Settle(owner, "resolved")
            ELSE Settle(owner, "DescriptionError")
      [] OTHER -> Settle(owner, "resolved")

\* the engine settles the oldest request: it changes state, fires
\* signalingstatechange when the state changed, then settles the promise
EngineSettle ==
    /\ chain # <<>>
    /\ LET req == Head(chain)
       IN \E outcome \in Outcomes(req, pc) :
            LET after == IF outcome = "ok" THEN Apply(req, pc) ELSE pc
                flush == IF after.signalingState # pc.signalingState
                         THEN OnSignalingStateChange(after, iceCandidateList)
                         ELSE [list |-> iceCandidateList, handed |-> <<>>]
            IN /\ pc' = after
               /\ iceCandidateList' = flush.list
               /\ chain' = Tail(chain) \o FlushRequests(flush.handed)
               /\ trace' = [trace EXCEPT !.candidates = @ \o flush.handed]
               /\ finished' = Continuation(req.owner, outcome, after)
    /\ UNCHANGED <<configuration, remoteCandidatesQueue, localCandidatesQueue>>
    /\ UNCHANGED connectivity

\* addIceConnectionStateChangeListener(otherId): one more listener on the engine
AddIceConnectionStateChangeListener ==
    /\ connectivity.listeners < MaxListeners
    /\ connectivity' = [connectivity EXCEPT !.listeners = @ + 1]
    /\ finished' = NoCall
    /\ UNCHANGED <<sessionVars, trace>>

IceConnectionStates ==
    {"new", "checking", "connected", "completed", "disconnected", "failed", "closed"}

ExceptionOnClosedToo(iceConnectionState) ==
    CASE iceConnectionState = "disconnected" -> "ICE_CONNECTION_DISCONNECTED"
      [] iceConnectionState \in {"failed", "closed"} -> "ICE_CONNECTION_FAILED"
      [] OTHER -> "none"

\* the listener's switch: the exception name it passes to
\* configuration.onIceConnectionStateException, "none" where it only logs
ExceptionName(iceConnectionState) ==
    CASE iceConnectionState = "disconnected" -> "ICE_CONNECTION_DISCONNECTED"
      [] iceConnectionState = "failed" -> "ICE_CONNECTION_FAILED"
      [] OTHER -> "none"

\* what the registered listeners pass to the callback, one after the other
Emitted(listeners, iceConnectionState) ==
    IF ExceptionName(iceConnectionState) = "none" THEN <<>>
    ELSE [i \in 1..listeners |-> ExceptionName(iceConnectionState)]

\* a listener that gives the session up when the connection has failed
IceConnectionStateChangeDisposing ==
    /\ connectivity.iceConnectionState # "closed"
    /\ \E state \in IceConnectionStates \ {connectivity.iceConnectionState} :
          /\ Closed => state = "closed"
          /\ connectivity' = [connectivity EXCEPT
                                 !.iceConnectionState = state,
                                 !.emitted = Emitted(connectivity.listeners, state)]
          /\ IF state = "failed" /\ connectivity.listeners > 0
             THEN /\ pc' = [pc EXCEPT !.signalingState = "closed"]
                  /\ remoteCandidatesQueue' = <<>>
                  /\ localCandidatesQueue' = <<>>
             ELSE UNCHANGED <<pc, remoteCandidatesQueue, localCandidatesQueue>>
    /\ finished' = NoCall
    /\ UNCHANGED <<configuration, iceCandidateList, chain, trace>>

\* the engine changes pc.iceConnectionState and fires iceconnectionstatechange:
\* every registered listener reads the new state and runs its switch. A closed
\* connection has no transition left but the one to closed.
IceConnectionStateChange ==
    /\ connectivity.iceConnectionState # "closed"
    /\ \E state \in IceConnectionStates \ {connectivity.iceConnectionState} :
          /\ Closed => state = "closed"
          /\ connectivity' = [connectivity EXCEPT
                                 !.iceConnectionState = state,
                                 !.emitted = Emitted(connectivity.listeners, state)]
    /\ finished' = NoCall
    /\ UNCHANGED <<sessionVars, trace>>

Next ==
    \/ AddIceConnectionStateChangeListener
    \/ IceConnectionStateChange
    \/ IceCandidateEvent
    \/ Dispose
    \/ ExternalClose
    \/ CreateOffer
    \/ CreateAnswer
    \/ ProcessLocalOffer
    \/ ProcessRemoteOffer
    \/ ProcessLocalAnswer
    \/ ProcessRemoteAnswer
    \/ AddIceCandidate
    \/ EngineSettle

Spec == Init /\ [][Next]_vars

\* Offer/answer creation: every configuration, no candidate traffic (no action
\* of it reads or writes the candidate queues)
NegotiationNext ==
    \/ Dispose
    \/ ExternalClose
    \/ CreateOffer
    \/ CreateAnswer
    \/ ProcessRemoteOffer
    \/ ProcessLocalAnswer
    \/ EngineSettle

SpecNegotiation == Init /\ [][NegotiationNext]_vars

\* Descriptions and candidates: no action of it reads the configuration or the
\* engine's capability, so one configuration stands for all
SignalingInit ==
    /\ Init
    /\ pc.transceiverApi
    /\ configuration.mode = "sendrecv"
    /\ ~configuration.mediaStream.present
    /\ configuration.mediaConstraints = [audio |-> TRUE, video |-> TRUE]

SignalingNext ==
    \/ Dispose
    \/ ExternalClose
    \/ ProcessLocalOffer
    \/ ProcessRemoteOffer
    \/ ProcessLocalAnswer
    \/ ProcessRemoteAnswer
    \/ AddIceCandidate
    \/ EngineSettle

SpecSignaling == SignalingInit /\ [][SignalingNext]_vars

\* The candidate queues and their teardown: local candidates are gathered and
\* remote ones arrive, before and after the connection is closed
TeardownNext ==
    \/ IceCandidateEvent
    \/ Dispose
    \/ ExternalClose
    \/ ProcessLocalOffer
    \/ AddIceCandidate
    \/ EngineSettle

SpecTeardown == SignalingInit /\ [][TeardownNext]_vars

\* Connectivity monitoring next to a session with candidates and a request in
\* flight, before and after dispose()
ConnectivityNext ==
    \/ AddIceConnectionStateChangeListener
    \/ IceConnectionStateChange
    \/ Dispose
    \/ ProcessLocalOffer
    \/ AddIceCandidate
    \/ EngineSettle

SpecConnectivity == SignalingInit /\ [][ConnectivityNext]_vars

\* ---------------------------------------------------------------- claims
\* the calls whose promise is still in flight or was settled in this step
Calls == {chain[i].owner : i \in 1..Len(chain)} \cup {finished}

FlushedRequests == {i \in 1..Len(chain) : chain[i].owner = NoCall}

ArrivalOrdered(list) == \A i, j \in 1..Len(list) : i < j => list[i] < list[j]

RemoteOps == {"processRemoteOffer", "processRemoteAnswer"}

\* C1: when the signaling state becomes stable, the buffered candidates (held in
\* arrival order) are handed to the engine in exactly that order, and
\* iceCandidateList is empty afterwards.
C1_FlushInArrivalOrder ==
    [][(pc.signalingState # "stable" /\ pc'.signalingState = "stable") =>
          /\ ArrivalOrdered(iceCandidateList)
          /\ trace'.candidates = trace.candidates \o iceCandidateList
          /\ iceCandidateList' = <<>>]_vars

C1_Witness ==
    /\ pc.signalingState = "stable"
    /\ iceCandidateList = <<>>
    /\ Cardinality(FlushedRequests) >= 2
    /\ trace.candidates = <<1, 2>>

\* C2 (as claimed): a processRemoteOffer/processRemoteAnswer call made while the
\* signaling state is closed never invokes the engine's setRemoteDescription.
C2_ClosedNeverSetsRemote ==
    \A call \in Calls :
        (call.op \in RemoteOps /\ call.closed) =>
            "setRemoteDescription" \notin call.engineCalls

\* C3: a processRemoteOffer/processRemoteAnswer call made while the signaling
\* state is closed has the closed-state error as its result: it is never
\* pending, resolved, or the engine's own error.
C3_ClosedResultIsStateError ==
    \A call \in Calls :
        (call.op \in RemoteOps /\ call.closed) => call.result = "StateError"

C3_Witness ==
    /\ finished.op \in RemoteOps
    /\ finished.closed
    /\ "setRemoteDescription" \in finished.engineCalls
    /\ finished.result = "StateError"

\* C4 (invariant I1): when the signaling state is stable and a remote
\* description is present, iceCandidateList is empty.
C4_BufferEmptyWhenStableWithRemote ==
    (pc.signalingState = "stable" /\ RemoteDescription(pc) # "null") =>
        iceCandidateList = <<>>

C4_Witness ==
    /\ pc.signalingState = "stable"
    /\ RemoteDescription(pc) # "null"
    /\ FlushedRequests # {}
    /\ finished.op \in {"processRemoteAnswer", "processLocalAnswer"}
    /\ finished.result = "resolved"

\* C5 (as claimed): a createAnswer() call whose code has run to its end has
\* settled: it is not left pending with nothing more to run.
C5_CreateAnswerSettles ==
    finished.op = "createAnswer" => finished.result # "pending"

\* C6: dispose() performs pc.close() at most once, and a dispose() after the
\* first leaves the session state unchanged.
C6_DisposeIdempotent ==
    [][Dispose =>
          /\ trace'.closeCalls <= 1
          /\ trace.disposed =>
                (UNCHANGED sessionVars /\ trace'.closeCalls = trace.closeCalls)]_vars

C6_Witness ==
    /\ finished.op = "dispose"
    /\ finished.closed
    /\ trace.closeCalls = 1

\* C7: addIceCandidate on a closed connection fails with the closed-state
\* error, hands nothing to the engine and does not push to iceCandidateList.
C7_ClosedCandidateRejected ==
    [][(AddIceCandidate /\ Closed) =>
          /\ finished'.result = "StateError"
          /\ finished'.engineCalls = {}
          /\ chain' = chain
          /\ trace'.candidates = trace.candidates
          /\ iceCandidateList' = iceCandidateList]_vars

C7_Witness ==
    /\ finished.op = "addIceCandidate"
    /\ finished.closed
    /\ finished.result = "StateError"
    /\ trace.disposed

NoStreamToSend == configuration.mode = "sendrecv" /\ ~configuration.mediaStream.present

\* C8 (as claimed): createOffer() with mode sendrecv and no mediaStream fails
\* with the configuration error, adds no transceiver and requests no offer.
C8_NoStreamFails ==
    \A call \in Calls :
        (call.op = "createOffer" /\ NoStreamToSend) =>
            (call.result = "ConfigurationError" /\ call.engineCalls = {})

\* C8 (amended): the same, when the engine has addTransceiver.
C8_NoStreamFailsWithTransceivers ==
    \A call \in Calls :
        (call.op = "createOffer" /\ NoStreamToSend /\ pc.transceiverApi) =>
            (call.result = "ConfigurationError" /\ call.engineCalls = {})

C8_Witness ==
    /\ NoStreamToSend
    /\ pc.transceiverApi
    /\ finished.op = "createOffer"
    /\ finished.result = "ConfigurationError"

KindMissing ==
    \E i \in 1..Len(Kinds) :
        /\ configuration.mediaConstraints[Kinds[i]]
        /\ FindTransceiver(pc.transceivers, Kinds[i], 1) = 0

\* C9 (as claimed): createAnswer() with getTransceivers, when a required kind
\* has no transceiver, fails with the negotiation error, changes no
\* transceiver's direction and requests no answer from the engine.
C9_MissingTransceiverFailsWhole ==
    [][(CreateAnswer /\ pc.transceiverApi /\ KindMissing) =>
          /\ \E call \in Calls' :
                call.op = "createAnswer" /\ call.result = "NegotiationError"
          /\ pc'.transceivers = pc.transceivers
          /\ chain' = chain]_vars

\* C10 (as claimed): processLocalOffer and processLocalAnswer resolve only when
\* the engine reports a local description after the set succeeded.
C10_ResolvedHasLocalDescription ==
    (finished.op \in {"processLocalOffer", "processLocalAnswer"}
        /\ finished.result = "resolved") => LocalDescription(pc) # "null"

BecomesStable == pc.signalingState # "stable" /\ pc'.signalingState = "stable"

\* C11 (as claimed): a flush hands every buffered candidate to the engine and
\* empties iceCandidateList, and the engine's failure to apply a flushed
\* candidate is handled: it never surfaces as an unhandled rejection.
C11_FlushFailureHandled ==
    [][/\ BecomesStable =>
             /\ trace'.candidates = trace.candidates \o iceCandidateList
             /\ iceCandidateList' = <<>>
       /\ finished'.result # "unhandledrejection"]_vars

\* C12: under every interleaving of candidate arrivals with negotiation steps,
\* the candidates handed to the engine are handed in arrival order, each at
\* most once: none is applied ahead of one that arrived before it.
C12_HandedInArrivalOrder ==
    \A i \in 1..Len(trace.candidates) : \A j \in 1..Len(trace.candidates) :
        i < j => trace.candidates[i] < trace.candidates[j]

\* a flushed candidate and a later, immediately applied one are both with the engine
C12_Witness ==
    \E i \in 1..Len(chain) : \E j \in 1..Len(chain) :
        /\ i < j
        /\ chain[i].method = "addIceCandidate" /\ chain[i].owner = NoCall
        /\ chain[j].method = "addIceCandidate" /\ chain[j].owner.op = "addIceCandidate"
        /\ chain[i].arg.cand < chain[j].arg.cand

NegotiationOps ==
    {"createOffer", "createAnswer", "processLocalOffer", "processRemoteOffer",
     "processLocalAnswer", "processRemoteAnswer"}

\* C13 (as claimed): a negotiation operation that was in flight when dispose()
\* closed the engine ends as a failure (the error of a closed session, raised
\* by WebRtcPeer or by the engine): it neither succeeds nor is left pending.
C13_InFlightFailsOnDispose ==
    (/\ finished.op \in NegotiationOps
     /\ ~finished.closed
     /\ finished.engineCalls # {}
     /\ Closed
     /\ trace.closeCalls = 1)
        => finished.result \in {"StateError", "EngineError"}

DisposeReturns == finished'.op = "dispose" /\ trace'.disposed

\* C15: dispose() on a session that is not closed closes the engine, once, and
\* leaves remoteCandidatesQueue and localCandidatesQueue empty; dispose() on a
\* closed session changes nothing and does not close the engine again.
C15_DisposeClosesAndEmpties ==
    [][DisposeReturns =>
          IF ~Closed
          THEN /\ pc'.signalingState = "closed"
               /\ trace'.closeCalls = trace.closeCalls + 1
               /\ remoteCandidatesQueue' = <<>>
               /\ localCandidatesQueue' = <<>>
               /\ UNCHANGED <<configuration, iceCandidateList, chain>>
          ELSE /\ UNCHANGED sessionVars
               /\ trace'.closeCalls = trace.closeCalls]_vars

\* dispose() has closed a session to which a remote candidate had been passed
C15_Witness ==
    /\ finished.op = "dispose"
    /\ "close" \in finished.engineCalls
    /\ trace.arrived > 0
    /\ remoteCandidatesQueue = <<>>

\* C16: a call of addIceCandidate() appends its candidate to
\* remoteCandidatesQueue in every state, closed included, whatever the call's
\* outcome; no other step but a closing dispose() touches the queue, so the
\* queue is the arrival-ordered sequence of the candidates passed.
C16_EveryCandidateAudited ==
    [][/\ trace'.arrived # trace.arrived =>
             remoteCandidatesQueue' = Append(remoteCandidatesQueue, trace'.arrived)
       /\ (trace'.arrived = trace.arrived /\ trace'.closeCalls = trace.closeCalls) =>
             UNCHANGED remoteCandidatesQueue]_vars

\* a candidate passed to a closed session was rejected and is in the queue
C16_Witness ==
    /\ finished.op = "addIceCandidate"
    /\ finished.closed
    /\ finished.result = "StateError"
    /\ remoteCandidatesQueue # <<>>
    /\ remoteCandidatesQueue[Len(remoteCandidatesQueue)] = trace.arrived

\* createOffer() was called in this step: its body ended with a throw or a
\* return, or with its request to the engine
CreateOfferCalled ==
    \/ finished'.op = "createOffer" /\ chain' = chain
    \/ /\ Len(chain') = Len(chain) + 1
       /\ chain'[Len(chain')].method = "createOffer"

EnabledKinds == SelectSeq(Kinds, LAMBDA kind : configuration.mediaConstraints[kind])

\* the step appended one recvonly transceiver per enabled kind, in the order of
\* the kinds, each with a stream no earlier transceiver or configuration has
RecvTransceiversAdded ==
    LET old == pc.transceivers
        new == pc'.transceivers
        n == Len(new) - Len(old)
        known == {old[j].stream : j \in 1..Len(old)} \cup
                 (IF configuration.mediaStream.present
                  THEN {configuration.mediaStream.id} ELSE {})
    IN /\ n = Len(EnabledKinds)
       /\ SubSeq(new, 1, Len(old)) = old
       /\ \A i \in 1..n :
             /\ new[Len(old) + i].kind = EnabledKinds[i]
             /\ new[Len(old) + i].direction = "recvonly"
             /\ new[Len(old) + i].stream \notin known
             /\ \A j \in 1..n : j # i => new[Len(old) + j].stream # new[Len(old) + i].stream
       /\ n > 0 => /\ configuration'.mediaStream.present
                   /\ configuration'.mediaStream.tracks = <<>>
                   /\ configuration'.mediaStream.id = new[Len(new)].stream

\* C17 (as claimed): createOffer() on the transceiver path with mode recvonly
\* adds exactly one recvonly transceiver per enabled kind and none for a
\* disabled kind, each bound to a freshly created empty stream.
C17_RecvOnlyTransceivers ==
    [][(CreateOfferCalled /\ pc.transceiverApi /\ configuration.mode = "recvonly")
          => RecvTransceiversAdded]_vars

\* C17 (amended): the same, for createOffer() called on a session that is not
\* closed.
C17_RecvOnlyTransceiversWhenOpen ==
    [][(CreateOfferCalled /\ pc.transceiverApi /\ configuration.mode = "recvonly"
          /\ ~Closed) => RecvTransceiversAdded]_vars

\* createOffer() in recvonly mode has added a transceiver for each of two kinds
C17_Witness ==
    /\ pc.transceiverApi /\ configuration.mode = "recvonly"
    /\ configuration.mediaConstraints["audio"] /\ configuration.mediaConstraints["video"]
    /\ Len(pc.transceivers) = 2
    /\ pc.transceivers[1].direction = "recvonly" /\ pc.transceivers[1].stream > 0
    /\ pc.transceivers[2].direction = "recvonly" /\ pc.transceivers[2].stream > 0
    /\ \E i \in 1..Len(chain) : chain[i].method = "createOffer" /\ ~chain[i].owner.closed

\* C18: every transceiver createOffer() adds for an outgoing video track (the
\* ones bound to the configured stream) carries exactly the three encodings
\* r0, r1, r2 with 700000, 800000, 900000 bit/s and scale-down 16, 8, 1, in
\* that order; no audio transceiver carries send encodings.
C18_VideoEncodingsFixed ==
    \A i \in 1..Len(pc.transceivers) :
        LET tc == pc.transceivers[i]
        IN /\ (tc.kind = "video" /\ tc.stream = 0) =>
                 tc.sendEncodings =
                   << [rid |-> "r0", maxBitrate |-> 700000, scaleResolutionDownBy |-> 16],
                      [rid |-> "r1", maxBitrate |-> 800000, scaleResolutionDownBy |-> 8],
                      [rid |-> "r2", maxBitrate |-> 900000, scaleResolutionDownBy |-> 1] >>
           /\ tc.kind = "audio" => tc.sendEncodings = <<>>

\* createOffer() has added a transceiver for an audio and for a video track
C18_Witness ==
    /\ configuration.mode # "recvonly"
    /\ \E i \in 1..Len(pc.transceivers) :
          pc.transceivers[i].kind = "video" /\ pc.transceivers[i].stream = 0
    /\ \E i \in 1..Len(pc.transceivers) :
          pc.transceivers[i].kind = "audio" /\ pc.transceivers[i].stream = 0

ConnectivityTransition ==
    connectivity'.iceConnectionState # connectivity.iceConnectionState

\* C19: with a listener registered, a connectivity transition passes an
\* exception to the callback exactly when the new state is disconnected
\* (ICE_CONNECTION_DISCONNECTED) or failed (ICE_CONNECTION_FAILED), once per
\* listener; a transition to any other state passes none.
C19_ExceptionIffDisconnectedOrFailed ==
    [][(ConnectivityTransition /\ connectivity.listeners > 0) =>
          LET state == connectivity'.iceConnectionState
              n == connectivity.listeners
          IN connectivity'.emitted =
               CASE state = "disconnected" ->
                        [i \in 1..n |-> "ICE_CONNECTION_DISCONNECTED"]
                 [] state = "failed" -> [i \in 1..n |-> "ICE_CONNECTION_FAILED"]
                 [] OTHER -> <<>>]_vars

\* the connection has failed under a registered listener
C19_Witness ==
    /\ connectivity.listeners > 0
    /\ connectivity.iceConnectionState = "failed"
    /\ Len(connectivity.emitted) = connectivity.listeners

\* C20: handling a connectivity transition changes nothing of the session:
\* signaling state, candidate buffer and queues, configuration, the requests
\* in flight; the engine is not closed and no operation is started.
C20_TransitionLeavesSession ==
    [][ConnectivityTransition =>
          /\ UNCHANGED sessionVars
          /\ trace' = trace
          /\ finished' = NoCall]_vars

\* the connection has failed while the session is open, holds a candidate and
\* has a request in flight
C20_Witness ==
    /\ connectivity.listeners > 0
    /\ connectivity.iceConnectionState = "failed"
    /\ connectivity.emitted # <<>>
    /\ ~Closed
    /\ remoteCandidatesQueue # <<>>
    /\ chain # <<>>

Elements(list) == {list[i] : i \in 1..Len(list)}

NoDuplicates(list) ==
    \A i \in 1..Len(list) : \A j \in 1..Len(list) : i # j => list[i] # list[j]

\* addIceCandidate() was called in this step
CandidateArrives == trace'.arrived # trace.arrived

\* C21: remote candidates are conserved. No candidate is at once in
\* iceCandidateList and handed to the engine, or in either twice; a buffered
\* candidate leaves the buffer only by being handed to the engine; and
\* addIceCandidate() in a state that is not closed and not (stable with a
\* remote description) buffers its candidate and resolves without a request
\* to the engine.
C21_CandidatesConserved ==
    [][/\ NoDuplicates(iceCandidateList' \o trace'.candidates)
       /\ Elements(iceCandidateList) \subseteq
             Elements(iceCandidateList') \cup Elements(trace'.candidates)
       /\ (/\ CandidateArrives
           /\ ~Closed
           /\ ~(pc.signalingState = "stable" /\ RemoteDescription(pc) # "null")) =>
             /\ finished'.op = "addIceCandidate"
             /\ finished'.result = "resolved"
             /\ finished'.engineCalls = {}
             /\ iceCandidateList' = Append(iceCandidateList, trace'.arrived)
             /\ trace'.candidates = trace.candidates
             /\ chain' = chain]_vars

\* two candidates were buffered and resolved; the flush has handed both to the
\* engine, once each, and the buffer is empty
C21_Witness ==
    /\ trace.arrived = 2
    /\ iceCandidateList = <<>>
    /\ trace.candidates = <<1, 2>>
    /\ Cardinality(FlushedRequests) = 2
    /\ pc.signalingState = "stable"

\* C22: once the session is closed no remote candidate is handed to the
\* engine: the step that closes it (dispose() included) and every later step
\* leave iceCandidateList as it is, not cleared and not flushed, and add no
\* call of pc.addIceCandidate.
C22_ClosedNeverFlushes ==
    [][(Closed \/ pc'.signalingState = "closed") =>
          /\ iceCandidateList' = iceCandidateList
          /\ trace'.candidates = trace.candidates]_vars

\* dispose() found a candidate buffered; an operation called after it has run
\* to its end and the candidate is still in the buffer
C22_Witness ==
    /\ Closed
    /\ trace.disposed
    /\ iceCandidateList # <<>>
    /\ finished.closed
    /\ finished.op = "processLocalOffer"
    /\ finished.result # "pending"

====
